---- MODULE Spec2Model ----
(***************************************************************************)
(* The Vorbis encoder plugin (src/encoder/VorbisEncoderPlugin.cxx) as a    *)
(* state machine: one encoder object, the configuration block it is built  *)
(* from, the libvorbis codec objects it owns (vi, vd, vb), its OggStream,  *)
(* and the caller's audio format descriptor.  One action per plugin        *)
(* method.  Beside it, the volume conversions of the WinMM mixer plugin     *)
(* (src/mixer/plugins/WinmmMixerPlugin.cxx) with the wave-out device whose *)
(* volume the mixer sets and gets.                                         *)
(***************************************************************************)
EXTENDS Integers, Sequences, FiniteSets, TLC

VARIABLES
  param,          \* the config_param block: optional "quality" and "bitrate" strings
  state,          \* lifecycle of the encoder object
  error,          \* the GError set by the last failing method ("none" if none)
  quality,        \* vorbis_encoder::quality (float)
  bitrate,        \* vorbis_encoder::bitrate (int)
  caller_format,  \* the struct audio_format the caller passes to open by pointer
  audio_format,   \* vorbis_encoder::audio_format
  vi,             \* vorbis_info       (the model descriptor)
  vd,             \* vorbis_dsp_state  (the analysis accumulator)
  vb,             \* vorbis_block      (the block buffer)
  stream,         \* vorbis_encoder::stream (OggStream)
  lastOp,         \* the plugin method that ran last
  ret,            \* what it returned
  device,         \* the DWORD volume of the wave-out device (low, high word)
  mixer_call,     \* the mixer method that ran last, with its argument
  mixer_result    \* what it returned

mixer_vars == <<device, mixer_call, mixer_result>>

encoder_vars == <<param, state, error, quality, bitrate, caller_format,
                  audio_format, vi, vd, vb, stream, lastOp, ret>>

vars == <<param, state, error, quality, bitrate, caller_format, audio_format,
          vi, vd, vb, stream, lastOp, ret, device, mixer_call, mixer_result>>

----------------------------------------------------------------------------
(* Bounds of the model.                                                    *)

\* longest configuration string that is enumerated exhaustively
MaxLen == 4
\* most packets ever submitted to the OggStream of one session
MaxPackets == 8
\* most frames the analysis accumulator is let to hold
MaxPcm == 4

----------------------------------------------------------------------------
(* C strings are sequences of one-character strings; reading at the index  *)
(* one past the end yields the terminating NUL.                            *)

NUL == "NUL"

CharAt(s, i) == IF i >= 1 /\ i <= Len(s) THEN s[i] ELSE NUL

DigitVal == [c \in {"0", "1", "2", "3", "4", "5", "6", "7", "8", "9"} |->
               CASE c = "0" -> 0 [] c = "1" -> 1 [] c = "2" -> 2 [] c = "3" -> 3
                 [] c = "4" -> 4 [] c = "5" -> 5 [] c = "6" -> 6 [] c = "7" -> 7
                 [] c = "8" -> 8 [] c = "9" -> 9]

Digits == DOMAIN DigitVal

\* g_ascii_isspace; of the six white-space characters only the blank occurs
\* in the strings of this model
Spaces == {" "}

\* the index of the first character at or after i that is not in Class
SpanEnd(s, i, Class) ==
  CHOOSE j \in i..(Len(s) + 1) :
    /\ \A k \in i..(j - 1) : s[k] \in Class
    /\ CharAt(s, j) \notin Class

\* whether the characters of w occur in s from index i on
Matches(s, i, w) ==
  /\ i + Len(w) - 1 <= Len(s)
  /\ \A k \in 1..Len(w) : s[i + k - 1] = w[k]

----------------------------------------------------------------------------
(* Floating point values.  A double is [cls, v]: cls is "num", "nan",      *)
(* "inf" or "ninf", and for a number v is its value in units of 10^-8,     *)
(* clamped to +-Clamp (the code compares qualities with -1.0 and 10.0      *)
(* only, so a magnitude of 20 or more is kept as 20).  The strings of the  *)
(* model have at most 8 digits after the point, so v is exact.             *)

Scale == 10 ^ 8
Clamp == 20 * Scale

Num(v) == [cls |-> "num", v |-> v]
NaN == [cls |-> "nan", v |-> 0]
Inf == [cls |-> "inf", v |-> 0]
NegInf == [cls |-> "ninf", v |-> 0]

\* the integer part of the digits s[i..j-1], saturating at 20
RECURSIVE DecInt(_, _, _, _)
DecInt(s, i, j, acc) ==
  IF i >= j THEN acc
  ELSE LET next == acc * 10 + DigitVal[s[i]]
       IN DecInt(s, i + 1, j, IF next >= 20 THEN 20 ELSE next)

\* the fraction digits s[i..j-1] in units of 10^-8; w is the weight of s[i]
RECURSIVE DecFrac(_, _, _, _)
DecFrac(s, i, j, w) ==
  IF i >= j \/ w = 0 THEN 0
  ELSE DigitVal[s[i]] * w + DecFrac(s, i + 1, j, w \div 10)

\* g_ascii_strtod(nptr, &endptr): white space, an optional sign, then
\* digits with an optional point, or "nan", "inf", "infinity".  end is the
\* index endptr points at.  With no conversion the value is 0 and endptr is
\* nptr.  (Exponents and hexadecimal forms need characters that the strings
\* of this model do not contain.)
g_ascii_strtod(s) ==
  LET p == SpanEnd(s, 1, Spaces)
      neg == CharAt(s, p) = "-"
      q == IF CharAt(s, p) \in {"-", "+"} THEN p + 1 ELSE p
      i1 == SpanEnd(s, q, Digits)
      hasDot == CharAt(s, i1) = "."
      f1 == IF hasDot THEN SpanEnd(s, i1 + 1, Digits) ELSE i1
      nInt == i1 - q
      nFrac == IF hasDot THEN f1 - (i1 + 1) ELSE 0
      ip == DecInt(s, q, i1, 0)
      mag == IF ip >= 20 THEN Clamp
             ELSE ip * Scale + (IF hasDot THEN DecFrac(s, i1 + 1, f1, Scale \div 10) ELSE 0)
  IN  IF nInt + nFrac > 0
        THEN [val |-> Num(IF neg THEN 0 - mag ELSE mag), end |-> f1]
      ELSE IF Matches(s, q, <<"n", "a", "n">>)
        THEN [val |-> NaN, end |-> q + 3]
      ELSE IF Matches(s, q, <<"i", "n", "f", "i", "n", "i", "t", "y">>)
        THEN [val |-> IF neg THEN NegInf ELSE Inf, end |-> q + 8]
      ELSE IF Matches(s, q, <<"i", "n", "f">>)
        THEN [val |-> IF neg THEN NegInf ELSE Inf, end |-> q + 3]
      ELSE [val |-> Num(0), end |-> 1]

\* The assignment of a double to the float field encoder->quality rounds to
\* binary32 (nearest, ties to even).  -1.0 and 10.0 are floats; the doubles
\* that round to them are those within half a unit in the last place:
\* 2^-24 below and 2^-25 above -1.0 in magnitude, 2^-21 around 10.0 (in
\* units of 10^-8: 5.96, 2.98 and 47.68).  Away from these two values v
\* stands for the float nearest to it.
ToFloat(d) ==
  IF d.cls # "num" THEN d
  ELSE IF d.v >= (0 - Scale) - 5 /\ d.v <= (0 - Scale) + 2 THEN Num(0 - Scale)
  ELSE IF d.v >= 10 * Scale - 47 /\ d.v <= 10 * Scale + 47 THEN Num(10 * Scale)
  ELSE d

\* float comparisons with a constant c given in units of 10^-8; every
\* comparison with a NaN is false
FloatLess(f, c) == f.cls = "ninf" \/ (f.cls = "num" /\ f.v < c)
FloatGreater(f, c) == f.cls = "inf" \/ (f.cls = "num" /\ f.v > c)
FloatGeq(f, c) == f.cls = "inf" \/ (f.cls = "num" /\ f.v >= c)

----------------------------------------------------------------------------
(* Integers.  A 64 bit value is four 16 bit limbs <<l0, l1, l2, l3>>, least *)
(* significant first, in two's complement.                                 *)

Limb == 2 ^ 16

\* acc * 10 + d on an unsigned 64 bit accumulator; ovf records a carry out
MulAdd10(acc, d) ==
  LET t0 == acc.l[1] * 10 + d
      t1 == acc.l[2] * 10 + t0 \div Limb
      t2 == acc.l[3] * 10 + t1 \div Limb
      t3 == acc.l[4] * 10 + t2 \div Limb
  IN  [l |-> <<t0 % Limb, t1 % Limb, t2 % Limb, t3 % Limb>>,
       ovf |-> acc.ovf \/ t3 >= Limb]

RECURSIVE Magnitude(_, _, _, _)
Magnitude(s, i, j, acc) ==
  IF i >= j THEN acc ELSE Magnitude(s, i + 1, j, MulAdd10(acc, DigitVal[s[i]]))

Zero64 == <<0, 0, 0, 0>>
MaxInt64 == <<Limb - 1, Limb - 1, Limb - 1, Limb \div 2 - 1>>
MinInt64 == <<0, 0, 0, Limb \div 2>>

Negate64(l) ==
  LET t0 == (Limb - 1 - l[1]) + 1
      t1 == (Limb - 1 - l[2]) + t0 \div Limb
      t2 == (Limb - 1 - l[3]) + t1 \div Limb
      t3 == (Limb - 1 - l[4]) + t2 \div Limb
  IN  <<t0 % Limb, t1 % Limb, t2 % Limb, t3 % Limb>>

\* g_ascii_strtoll(nptr, &endptr, 10): white space, an optional sign,
\* decimal digits.  A value outside gint64 is returned as G_MAXINT64 or
\* G_MININT64.  With no digits the value is 0 and endptr is nptr.
g_ascii_strtoll(s) ==
  LET p == SpanEnd(s, 1, Spaces)
      neg == CharAt(s, p) = "-"
      q == IF CharAt(s, p) \in {"-", "+"} THEN p + 1 ELSE p
      e == SpanEnd(s, q, Digits)
      m == Magnitude(s, q, e, [l |-> Zero64, ovf |-> FALSE])
      tooBigPos == m.ovf \/ m.l[4] >= Limb \div 2
      tooBigNeg == m.ovf \/ m.l[4] > Limb \div 2
                     \/ (m.l[4] = Limb \div 2 /\ <<m.l[1], m.l[2], m.l[3]>> # <<0, 0, 0>>)
  IN  IF e = q THEN [val |-> Zero64, end |-> 1]
      ELSE IF neg THEN [val |-> IF tooBigNeg THEN MinInt64 ELSE Negate64(m.l), end |-> e]
      ELSE [val |-> IF tooBigPos THEN MaxInt64 ELSE m.l, end |-> e]

MaxInt32 == (Limb \div 2 - 1) * Limb + (Limb - 1)

\* the conversion of a gint64 to int keeps the low 32 bits
ToInt32(l) ==
  IF l[2] >= Limb \div 2 THEN (l[2] - Limb) * Limb + l[1] ELSE l[2] * Limb + l[1]

----------------------------------------------------------------------------
(* The configuration block and vorbis_encoder_configure.                   *)

\* config_get_block_string(param, name, nullptr): the string, or nullptr
Absent == [present |-> FALSE, str |-> <<>>]
Present(s) == [present |-> TRUE, str |-> s]

Alphabet == {"-", "+", ".", "0", "1", "9", "n", "a", " "}

StringsUpTo(n) == UNION {[1..k -> Alphabet] : k \in 0..n}

\* longer strings of interest: values next to 10.0 and -1.0, "inf"
QualityProbes ==
  { <<"5">>, <<"1", "0", ".", "0">>, <<"-", "1", ".", "0">>,
    <<"1", "0", ".", "0", "0", "0", "0", "0", "0", "4">>,
    <<"1", "0", ".", "0", "0", "0", "0", "0", "0", "5">>,
    <<"-", "1", ".", "0", "0", "0", "0", "0", "0", "0", "5">>,
    <<"-", "1", ".", "0", "0", "0", "0", "0", "0", "0", "6">>,
    <<"i", "n", "f">>, <<"-", "i", "n", "f">>, <<"5", "x">> }

\* 128, 2^31-1, 2^31, 2^32, 2^32+1, 2^63, 2^64
BitrateProbes ==
  { <<"1", "2", "8">>,
    <<"2", "1", "4", "7", "4", "8", "3", "6", "4", "7">>,
    <<"2", "1", "4", "7", "4", "8", "3", "6", "4", "8">>,
    <<"4", "2", "9", "4", "9", "6", "7", "2", "9", "6">>,
    <<"4", "2", "9", "4", "9", "6", "7", "2", "9", "7">>,
    <<"9", "2", "2", "3", "3", "7", "2", "0", "3", "6", "8", "5", "4", "7", "7",
      "5", "8", "0", "8">>,
    <<"1", "8", "4", "4", "6", "7", "4", "4", "0", "7", "3", "7", "0", "9", "5",
      "5", "1", "6", "1", "6">>,
    <<"1", "2", "8", "k">> }

\* the fields of a vorbis_encoder fresh from new: nothing has set them
NoQuality == [cls |-> "uninit", v |-> 0]
NoBitrate == [set |-> FALSE, v |-> 0]
Bitrate(b) == [set |-> TRUE, v |-> b]

\* A faulty vorbis_encoder_configure: the test for a bitrate beside the
\* quality is made before the quality string is examined.
configure_ConflictFirst(enc, p) ==
  IF p.quality.present
    THEN LET r == g_ascii_strtod(p.quality.str)
             q == ToFloat(r.val)
         IN  IF p.bitrate.present
               THEN [ok |-> FALSE, error |-> "ConflictingMode",
                     quality |-> q, bitrate |-> enc.bitrate]
             ELSE IF \/ CharAt(p.quality.str, r.end) # NUL
                     \/ FloatLess(q, 0 - Scale)
                     \/ FloatGreater(q, 10 * Scale)
               THEN [ok |-> FALSE, error |-> "InvalidQuality",
                     quality |-> q, bitrate |-> enc.bitrate]
             ELSE [ok |-> TRUE, error |-> "none",
                   quality |-> q, bitrate |-> enc.bitrate]
  ELSE IF ~p.bitrate.present
    THEN [ok |-> FALSE, error |-> "MissingMode",
          quality |-> enc.quality, bitrate |-> enc.bitrate]
  ELSE LET r == g_ascii_strtoll(p.bitrate.str)
           b == ToInt32(r.val)
       IN  IF CharAt(p.bitrate.str, r.end) # NUL \/ b <= 0
             THEN [ok |-> FALSE, error |-> "InvalidBitrate",
                   quality |-> Num(0 - 2 * Scale), bitrate |-> Bitrate(b)]
           ELSE [ok |-> TRUE, error |-> "none",
                 quality |-> Num(0 - 2 * Scale), bitrate |-> Bitrate(b)]

\* The errors are named as the specification names them; the code sets
\*   InvalidQuality   "quality \"%s\" is not a number in the range -1 to 10"
\*   ConflictingMode  "quality and bitrate are both defined"
\*   MissingMode      "neither bitrate nor quality defined"
\*   InvalidBitrate   "bitrate at line %i should be a positive integer"
\* The result is [ok, error, quality, bitrate]: the return value, the
\* GError, and the two fields of the encoder as the call leaves them.
vorbis_encoder_configure(enc, p) ==
  IF p.quality.present
    THEN LET r == g_ascii_strtod(p.quality.str)
             q == ToFloat(r.val)
         IN  IF \/ CharAt(p.quality.str, r.end) # NUL
                \/ FloatLess(q, 0 - Scale)
                \/ FloatGreater(q, 10 * Scale)
               THEN [ok |-> FALSE, error |-> "InvalidQuality",
                     quality |-> q, bitrate |-> enc.bitrate]
             ELSE IF p.bitrate.present
               THEN [ok |-> FALSE, error |-> "ConflictingMode",
                     quality |-> q, bitrate |-> enc.bitrate]
             ELSE [ok |-> TRUE, error |-> "none",
                   quality |-> q, bitrate |-> enc.bitrate]
  ELSE IF ~p.bitrate.present
    THEN [ok |-> FALSE, error |-> "MissingMode",
          quality |-> enc.quality, bitrate |-> enc.bitrate]
  ELSE LET r == g_ascii_strtoll(p.bitrate.str)
           b == ToInt32(r.val)
       IN  IF CharAt(p.bitrate.str, r.end) # NUL \/ b <= 0
             THEN [ok |-> FALSE, error |-> "InvalidBitrate",
                   quality |-> Num(0 - 2 * Scale), bitrate |-> Bitrate(b)]
           ELSE [ok |-> TRUE, error |-> "none",
                 quality |-> Num(0 - 2 * Scale), bitrate |-> Bitrate(b)]

----------------------------------------------------------------------------
(* OggStream (OggStream.hxx): the container stream.  packets holds every   *)
(* packet submitted since Initialize, in order; the first `paged` of them  *)
(* have been emitted as pages and the first `returned` of those have been  *)
(* copied out by PageOut.  Output is counted in packets: one packet is one *)
(* unit of page data.  streams counts the logical streams begun.           *)

\* packets that are held back before a page is emitted without a flush
PageFill == 2

NoStream == [initialized |-> FALSE, serialno |-> 0, streams |-> 0,
             packets |-> <<>>, paged |-> 0, returned |-> 0]

\* begin(serial): a new logical stream; nothing of an earlier one is kept
Initialize(st, serialno) ==
  [initialized |-> TRUE, serialno |-> serialno, streams |-> 1,
   packets |-> <<>>, paged |-> 0, returned |-> 0]

\* restart(serial): the current logical stream ends, its pending packets go
\* out as its last pages, and a new one begins under the new identifier
Reinitialize(st, serialno) ==
  [st EXCEPT !.serialno = serialno, !.streams = @ + 1,
             !.paged = Len(st.packets)]

\* submit(packet): the packet joins the current logical stream; a page is
\* emitted once PageFill packets are pending
PacketIn(st, packet) ==
  LET pk == [kind |-> packet.kind, comment |-> packet.comment,
             serialno |-> st.serialno, ls |-> st.streams]
      all == Append(st.packets, pk)
  IN  [st EXCEPT !.packets = all,
                 !.paged = IF Len(all) - st.paged >= PageFill THEN Len(all) ELSE @]

\* flush(): everything pending is emitted as pages
Flush(st) == [st EXCEPT !.paged = Len(st.packets)]

\* read(buffer, max_bytes): as much of the emitted data as fits is copied
PageOut(st, length) ==
  LET n == IF st.paged - st.returned < length THEN st.paged - st.returned ELSE length
  IN  [stream |-> [st EXCEPT !.returned = @ + n], n |-> n]

\* end(): the stream's resources are released
Deinitialize(st) == [st EXCEPT !.initialized = FALSE]

----------------------------------------------------------------------------
(* libvorbis, as the plugin uses it.  vi is the model descriptor, vd the   *)
(* analysis accumulator (pcm: frames written and not yet taken by a block; *)
(* eofflag: "clear", "marked" once vorbis_analysis_wrote(vd, 0) was        *)
(* called, "done" once the last block went out), vb the block buffer.      *)

\* frames taken by one analysis block
BlockFrames == 2

NoInfo == [live |-> FALSE, mode |-> "none", channels |-> 0, rate |-> 0,
           base_quality |-> [cls |-> "none", v |-> 0, den |-> 1],
           nominal_bitrate |-> [v |-> 0, overflow |-> FALSE]]
NoDsp == [live |-> FALSE, pcm |-> 0, eofflag |-> "clear"]
NoBlock == [live |-> FALSE]

\* vorbis_info_init
vorbis_info_init == [NoInfo EXCEPT !.live = TRUE]
\* vorbis_info_clear
vorbis_info_clear == NoInfo
\* vorbis_analysis_init(&vd, &vi)
vorbis_analysis_init == [live |-> TRUE, pcm |-> 0, eofflag |-> "clear"]
\* vorbis_dsp_clear
vorbis_dsp_clear == NoDsp
\* vorbis_block_init(&vd, &vb)
vorbis_block_init == [live |-> TRUE]
\* vorbis_block_clear
vorbis_block_clear == NoBlock

\* encoder->quality * 0.1: the same digits over a ten times larger denominator
TimesOneTenth(f) == [cls |-> f.cls, v |-> f.v, den |-> Scale * 10]

\* encoder->bitrate * 1000 in int: the low 32 bits of the product, and
\* whether the product left the range of int
Times1000(b) ==
  LET u == IF b < 0 THEN (b + MaxInt32) + 1 ELSE b  \* b without its sign bit
      hi == (u \div Limb + (IF b < 0 THEN Limb \div 2 ELSE 0))
      lo == u % Limb
      t0 == lo * 1000
      t1 == (hi * 1000 + t0 \div Limb) % Limb
      fits == b <= MaxInt32 \div 1000 /\ b >= 0 - (MaxInt32 \div 1000)
  IN  [v |-> ToInt32(<<t0 % Limb, t1, 0, 0>>), overflow |-> ~fits]

\* vorbis_analysis_wrote(&vd, vals): vals frames were written; 0 marks the
\* end of the stream
vorbis_analysis_wrote(d, vals) ==
  IF vals = 0 THEN [d EXCEPT !.eofflag = "marked"]
  ELSE [d EXCEPT !.pcm = @ + vals]

\* vorbis_analysis_blockout(&vd, &vb): 1 and the next block while one is
\* available, else 0.  After the end of the stream was marked the rest of
\* the data goes out as the last block; after that there are no more blocks.
vorbis_analysis_blockout(d) ==
  IF d.eofflag = "done" THEN [ret |-> 0, vd |-> d]
  ELSE IF d.pcm >= BlockFrames THEN [ret |-> 1, vd |-> [d EXCEPT !.pcm = @ - BlockFrames]]
  ELSE IF d.eofflag = "marked" THEN [ret |-> 1, vd |-> [d EXCEPT !.pcm = 0, !.eofflag = "done"]]
  ELSE [ret |-> 0, vd |-> d]

\* the blocks vorbis_analysis_blockout yields from d until it returns 0
BlocksAvailable(d) ==
  IF d.eofflag = "done" THEN 0
  ELSE d.pcm \div BlockFrames + (IF d.eofflag = "marked" THEN 1 ELSE 0)

\* vorbis_analysis_headerout(&vd, vc, &packet, &comments, &codebooks)
vorbis_analysis_headerout(vc) ==
  [packet |-> [kind |-> "identification", comment |-> <<>>],
   comments |-> [kind |-> "comments", comment |-> vc],
   codebooks |-> [kind |-> "setup", comment |-> <<>>]]

AudioPacket == [kind |-> "audio", comment |-> <<>>]

\* audio_format_frame_size: channels times the sample size (float: 4 bytes)
audio_format_frame_size(af) == af.channels * 4

----------------------------------------------------------------------------
(* The plugin's helpers.                                                   *)

\* what g_random_int() may return
Serials == {1, 2}

\* what an int that was never assigned may hold
UninitInts == {0 - 1, 128}

\* the tags a caller sends: sequences of (type, value) items
Tags == { <<>>, <<[type |-> "title", value |-> "t"]>> }

\* tag_item_names[type]
tag_item_names == [t \in {"artist", "title"} |->
                     IF t = "artist" THEN "Artist" ELSE "Title"]

\* g_ascii_strup
g_ascii_strup(n) == CASE n = "Artist" -> "ARTIST" [] n = "Title" -> "TITLE"

\* copy_tag_to_vorbis_comment, on an empty vorbis_comment
copy_tag_to_vorbis_comment(tag) ==
  [i \in 1..Len(tag) |->
     [name |-> g_ascii_strup(tag_item_names[tag[i].type]), value |-> tag[i].value]]

\* the encoder object, as the record of its fields
Encoder ==
  [quality |-> quality, bitrate |-> bitrate, audio_format |-> audio_format,
   vi |-> vi, vd |-> vd, vb |-> vb, stream |-> stream]

\* the fields of the encoder object become those of e
Store(e) ==
  /\ quality' = e.quality
  /\ bitrate' = e.bitrate
  /\ audio_format' = e.audio_format
  /\ vi' = e.vi
  /\ vd' = e.vd
  /\ vb' = e.vb
  /\ stream' = e.stream

\* encoder->bitrate * 1000 as the build computes it: the product when it
\* fits in int; when it does not, the behaviour is undefined, and the value
\* passed on is the low 32 bits (wraps) or some other int (garbage)
NominalBitrate(b, garbage, wraps) ==
  LET t == Times1000(b)
  IN  IF t.overflow /\ ~wraps THEN [v |-> garbage, overflow |-> TRUE] ELSE t

\* vorbis_encoder_reinit.  accept: whether libvorbis takes the channel
\* count, sample rate and mode (vorbis_encode_init_vbr / vorbis_encode_init
\* return 0); garbage: what an int that was never set holds; wraps: whether
\* a product that overflows wraps; serialno: what g_random_int() returns.
\* The result is the return value and the encoder as the call leaves it.
vorbis_encoder_reinit(e, accept, garbage, wraps, serialno) ==
  LET af == e.audio_format
      info == IF FloatGeq(e.quality, 0 - Scale)
                THEN [vorbis_info_init EXCEPT
                        !.mode = "vbr", !.channels = af.channels,
                        !.rate = af.sample_rate,
                        !.base_quality = TimesOneTenth(e.quality)]
                ELSE [vorbis_info_init EXCEPT
                        !.mode = "cbr", !.channels = af.channels,
                        !.rate = af.sample_rate,
                        !.nominal_bitrate =
                           NominalBitrate(
                             IF e.bitrate.set THEN e.bitrate.v ELSE garbage,
                             garbage, wraps)]
  IN  IF ~accept
        THEN [ok |-> FALSE, enc |-> [e EXCEPT !.vi = vorbis_info_clear]]
        ELSE [ok |-> TRUE,
              enc |-> [e EXCEPT !.vi = info,
                                !.vd = vorbis_analysis_init,
                                !.vb = vorbis_block_init,
                                !.stream = Initialize(e.stream, serialno)]]

\* A faulty vorbis_encoder_headerout: the comment packet is submitted first.
headerout_CommentsFirst(e, vc) ==
  LET h == vorbis_analysis_headerout(vc)
  IN  [e EXCEPT !.stream =
         PacketIn(PacketIn(PacketIn(e.stream, h.comments), h.packet), h.codebooks)]

\* vorbis_encoder_headerout
vorbis_encoder_headerout(e, vc) ==
  LET h == vorbis_analysis_headerout(vc)
  IN  [e EXCEPT !.stream =
         PacketIn(PacketIn(PacketIn(e.stream, h.packet), h.comments), h.codebooks)]

\* vorbis_encoder_send_header
vorbis_encoder_send_header(e) == vorbis_encoder_headerout(e, <<>>)

\* the inner loop of vorbis_encoder_blockout: vorbis_bitrate_flushpacket
\* hands out n packets and each goes to the stream
RECURSIVE FlushPackets(_, _)
FlushPackets(st, n) ==
  IF n = 0 THEN st ELSE FlushPackets(PacketIn(st, AudioPacket), n - 1)

\* vorbis_encoder_blockout; perBlock is the number of packets the bitrate
\* manager releases for one block
RECURSIVE vorbis_encoder_blockout(_, _)
vorbis_encoder_blockout(e, perBlock) ==
  LET b == vorbis_analysis_blockout(e.vd)
  IN  IF b.ret # 1 THEN [e EXCEPT !.vd = b.vd]
      ELSE vorbis_encoder_blockout(
             [e EXCEPT !.vd = b.vd, !.stream = FlushPackets(e.stream, perBlock)],
             perBlock)

\* the packets one block may yield
PacketsPerBlock == {0, 1}

----------------------------------------------------------------------------
(* The plugin's methods.  ret is 1 for true and 0 for false, and the byte  *)
(* count for read.                                                         *)

NoFormat == [channels |-> 0, sample_rate |-> 0, format |-> "UNDEFINED"]

CallerFormats ==
  [channels : {1, 2}, sample_rate : {44100}, format : {"S16", "FLOAT"}]

\* vorbis_encoder_init: new vorbis_encoder, then configure; on failure the
\* object is deleted
vorbis_encoder_init ==
  /\ state = "Created"
  /\ LET r == vorbis_encoder_configure(Encoder, param)
     IN  IF r.ok
           THEN /\ state' = "Configured"
                /\ quality' = r.quality
                /\ bitrate' = r.bitrate
                /\ ret' = 1
           ELSE /\ state' = "Discarded"
                /\ quality' = NoQuality
                /\ bitrate' = NoBitrate
                /\ ret' = 0
  /\ error' = vorbis_encoder_configure(Encoder, param).error
  /\ lastOp' = "init"
  /\ UNCHANGED mixer_vars
  /\ UNCHANGED <<param, caller_format, audio_format, vi, vd, vb, stream>>

\* vorbis_encoder_open
vorbis_encoder_open(accept, garbage, wraps, serialno) ==
  /\ state = "Configured"
  /\ LET fmt == [caller_format EXCEPT !.format = "FLOAT"]
         r == vorbis_encoder_reinit([Encoder EXCEPT !.audio_format = fmt],
                                    accept, garbage, wraps, serialno)
     IN  /\ caller_format' = fmt
         /\ IF ~r.ok
              THEN /\ Store(r.enc)
                   /\ state' = "OpenFailed"
                   /\ error' = "CodecInitFailed"
                   /\ ret' = 0
              ELSE /\ Store(vorbis_encoder_send_header(r.enc))
                   /\ state' = "Open"
                   /\ error' = "none"
                   /\ ret' = 1
  /\ lastOp' = "open"
  /\ UNCHANGED mixer_vars
  /\ UNCHANGED param

\* vorbis_encoder_clear
vorbis_encoder_clear(e) ==
  [e EXCEPT !.stream = Deinitialize(e.stream),
            !.vb = vorbis_block_clear,
            !.vd = vorbis_dsp_clear,
            !.vi = vorbis_info_clear]

\* the resources vorbis_encoder_clear releases, in the order of its calls
ClearReleases == <<"stream", "vb", "vd", "vi">>

\* the resources of e that are initialized and not released
Held(e) ==
  {r \in {"stream", "vb", "vd", "vi"} :
     CASE r = "stream" -> e.stream.initialized
       [] r = "vb" -> e.vb.live
       [] r = "vd" -> e.vd.live
       [] r = "vi" -> e.vi.live}

\* vorbis_encoder_close, on the object init returned.  The function tests
\* nothing: where a resource it releases is not held (the object was never
\* opened, or the open failed) the release reads memory that was never
\* initialized or was released already, and the call either returns or
\* the process ends in it (crash).
vorbis_encoder_close(crash) ==
  /\ state \in {"Configured", "OpenFailed", "Open"}
  /\ crash => \E i \in 1..Len(ClearReleases) : ClearReleases[i] \notin Held(Encoder)
  /\ IF crash
       THEN /\ state' = "Crashed"
            /\ UNCHANGED <<quality, bitrate, audio_format, vi, vd, vb, stream>>
            /\ ret' = 0
       ELSE /\ Store(vorbis_encoder_clear(Encoder))
            /\ state' = "Closed"
            /\ ret' = 1
  /\ lastOp' = "close"
  /\ UNCHANGED mixer_vars
  /\ UNCHANGED <<param, error, caller_format>>

\* A faulty pre_tag: it ends by restarting the stream under another
\* identifier instead of flushing it.
PreTag_Restarts(e, perBlock) ==
  LET e1 == vorbis_encoder_blockout(
              [e EXCEPT !.vd = vorbis_analysis_wrote(e.vd, 0)], perBlock)
      e2 == [e1 EXCEPT !.vb = vorbis_block_clear, !.vd = vorbis_dsp_clear]
      e3 == [e2 EXCEPT !.vd = vorbis_analysis_init, !.vb = vorbis_block_init]
  IN  [e3 EXCEPT !.stream =
         Reinitialize(e3.stream, CHOOSE x \in Serials : x # e3.stream.serialno)]

\* A faulty pre_tag: the accumulator and the block buffer are cleared and
\* not initialized again.
PreTag_LeavesCleared(e, perBlock) ==
  LET e1 == vorbis_encoder_blockout(
              [e EXCEPT !.vd = vorbis_analysis_wrote(e.vd, 0)], perBlock)
      e2 == [e1 EXCEPT !.vb = vorbis_block_clear, !.vd = vorbis_dsp_clear]
  IN  [e2 EXCEPT !.stream = Flush(e2.stream)]

\* A faulty pre_tag: the accumulator and the block buffer are re-created
\* before the end of the segment is marked and drained.
PreTag_ResetsFirst(e, perBlock) ==
  LET e1 == [e EXCEPT !.vb = vorbis_block_clear, !.vd = vorbis_dsp_clear]
      e2 == [e1 EXCEPT !.vd = vorbis_analysis_init, !.vb = vorbis_block_init]
      e3 == vorbis_encoder_blockout(
              [e2 EXCEPT !.vd = vorbis_analysis_wrote(e2.vd, 0)], perBlock)
  IN  [e3 EXCEPT !.stream = Flush(e3.stream)]

\* A faulty pre_tag: it only flushes the stream, as flush does.
PreTag_OnlyFlushes(e, perBlock) == [e EXCEPT !.stream = Flush(e.stream)]

\* the body of vorbis_encoder_pre_tag (the plugin registers the function
\* as its end method too)
PreTag(e, perBlock) ==
  LET e1 == vorbis_encoder_blockout(
              [e EXCEPT !.vd = vorbis_analysis_wrote(e.vd, 0)], perBlock)
      e2 == [e1 EXCEPT !.vb = vorbis_block_clear, !.vd = vorbis_dsp_clear]
      e3 == [e2 EXCEPT !.vd = vorbis_analysis_init, !.vb = vorbis_block_init]
  IN  [e3 EXCEPT !.stream = Flush(e3.stream)]

\* vorbis_encoder_pre_tag
vorbis_encoder_pre_tag(perBlock) ==
  /\ state = "Open"
  /\ Len(stream.packets) + (BlocksAvailable(vd) + 1) * perBlock <= MaxPackets
  /\ Store(PreTag(Encoder, perBlock))
  /\ lastOp' = "pre_tag"
  /\ UNCHANGED mixer_vars
  /\ ret' = 1
  /\ UNCHANGED <<param, state, error, caller_format>>

\* A faulty plugin table: the flush method is the function registered as
\* the end method, vorbis_encoder_pre_tag.
flush_RunsPreTag ==
  /\ state = "Open"
  /\ Len(stream.packets) + BlocksAvailable(vd) + 1 <= MaxPackets
  /\ Store(PreTag(Encoder, 1))
  /\ lastOp' = "flush"
  /\ UNCHANGED mixer_vars
  /\ ret' = 1
  /\ UNCHANGED <<param, state, error, caller_format>>

\* vorbis_encoder_flush
vorbis_encoder_flush ==
  /\ state = "Open"
  /\ Store([Encoder EXCEPT !.stream = Flush(stream)])
  /\ lastOp' = "flush"
  /\ UNCHANGED mixer_vars
  /\ ret' = 1
  /\ UNCHANGED <<param, state, error, caller_format>>

\* A faulty tag: the stream is restarted under the identifier it has.
SendTag_KeepsSerial(e, tag, serialno) ==
  LET comment == copy_tag_to_vorbis_comment(tag)
  IN  vorbis_encoder_headerout(
        [e EXCEPT !.stream = Reinitialize(e.stream, e.stream.serialno)], comment)

\* A faulty tag: the headers are sent before the stream is restarted.
SendTag_HeadersFirst(e, tag, serialno) ==
  LET comment == copy_tag_to_vorbis_comment(tag)
      e1 == vorbis_encoder_headerout(e, comment)
  IN  [e1 EXCEPT !.stream = Reinitialize(e1.stream, serialno)]

\* A faulty tag: the stream is begun anew, as by open, instead of restarted.
SendTag_BeginsAnew(e, tag, serialno) ==
  LET comment == copy_tag_to_vorbis_comment(tag)
      st == Initialize(e.stream, serialno)
  IN  vorbis_encoder_headerout(
        [e EXCEPT !.stream = [st EXCEPT !.streams = e.stream.streams + 1]], comment)

\* the body of vorbis_encoder_tag
SendTag(e, tag, serialno) ==
  LET comment == copy_tag_to_vorbis_comment(tag)
  IN  vorbis_encoder_headerout(
        [e EXCEPT !.stream = Reinitialize(e.stream, serialno)], comment)

\* vorbis_encoder_tag
vorbis_encoder_tag(tag, serialno) ==
  /\ state = "Open"
  /\ Len(stream.packets) + 3 <= MaxPackets
  /\ Store(SendTag(Encoder, tag, serialno))
  /\ lastOp' = "tag"
  /\ UNCHANGED mixer_vars
  /\ ret' = 1
  /\ UNCHANGED <<param, state, error, caller_format>>

\* the lengths, in bytes, a caller passes to write
WriteLengths == {0, 4, 8, 16}

\* the body of vorbis_encoder_write
Write(e, length, perBlock) ==
  LET num_frames == length \div audio_format_frame_size(e.audio_format)
  IN  vorbis_encoder_blockout(
        [e EXCEPT !.vd = vorbis_analysis_wrote(e.vd, num_frames)], perBlock)

\* vorbis_encoder_write
vorbis_encoder_write(length, perBlock) ==
  /\ state = "Open"
  /\ vd.pcm + length \div audio_format_frame_size(audio_format) <= MaxPcm
  /\ Len(stream.packets)
       + ((vd.pcm + length \div audio_format_frame_size(audio_format))
             \div BlockFrames + 1) * perBlock <= MaxPackets
  /\ Store(Write(Encoder, length, perBlock))
  /\ lastOp' = "write"
  /\ UNCHANGED mixer_vars
  /\ ret' = 1
  /\ UNCHANGED <<param, state, error, caller_format>>

\* the buffer sizes a caller passes to read (a buffer holds at least the
\* start of a page)
ReadLengths == {1, 3}

\* A faulty read: it returns the size of the buffer, not the number of
\* bytes copied.
Read_ReturnsLength(e, length) ==
  LET r == PageOut(e.stream, length)
  IN  [enc |-> [e EXCEPT !.stream = r.stream], n |-> length]

\* the body of vorbis_encoder_read
Read(e, length) ==
  LET r == PageOut(e.stream, length)
  IN  [enc |-> [e EXCEPT !.stream = r.stream], n |-> r.n]

\* vorbis_encoder_read
vorbis_encoder_read(length) ==
  /\ state = "Open"
  /\ Store(Read(Encoder, length).enc)
  /\ ret' = Read(Encoder, length).n
  /\ lastOp' = "read"
  /\ UNCHANGED mixer_vars
  /\ UNCHANGED <<param, state, error, caller_format>>

----------------------------------------------------------------------------
(* The WinMM mixer (WinmmMixerPlugin.cxx).  A volume is an int in 0..100;  *)
(* the device holds a DWORD whose low word is the left and whose high word *)
(* is the right level.                                                     *)

Word == 2 ^ 16

\* MAKELONG(a, b): each argument is cast to a WORD
MAKELONG(a, b) == [lo |-> a % Word, hi |-> b % Word]

\* lround(volume * 655.35).  The double 655.35 lies above 65535/100 by less
\* than 10^-13, so the double product is never below volume * 65535 / 100
\* where that is a half (volume 10, 30, 50, 70, 90), and nowhere else is it
\* nearer than 1/100 to a half: lround yields volume * 65535 / 100 rounded
\* to the nearest integer, a half rounded away from zero.
LroundTimes(volume) == (volume * 65535 + 50) \div 100

\* lround(w / 655.35) for a WORD w: w * 100 / 65535 is never a half and
\* never nearer to one than 1/131070, which the error of the double
\* quotient does not reach: the quotient rounded to the nearest integer.
LroundOver(w) == (w * 200 + 65535) \div (2 * 65535)

\* winmm_volume_decode: volume & 0xFFFF is the low word
winmm_volume_decode(volume) == LroundOver(volume.lo)

\* A faulty winmm_volume_encode: the product is truncated, not rounded.
encode_Truncates(volume) ==
  LET value == (volume * 65535) \div 100
  IN  MAKELONG(value, value)

\* winmm_volume_encode
winmm_volume_encode(volume) ==
  LET value == LroundTimes(volume)
  IN  MAKELONG(value, value)

\* the volumes a caller sets
Volumes == 0..100

\* what the device holds before the mixer has set anything
DeviceVolumes == {MAKELONG(65535, 65535), MAKELONG(0, 65535)}

NoCall == [op |-> "none", volume |-> 0]

\* WinmmMixer::SetVolume; ok: waveOutSetVolume returns MMSYSERR_NOERROR
\* and the device holds the value it was given
WinmmMixer_SetVolume(volume, ok) ==
  /\ device' = IF ok THEN winmm_volume_encode(volume) ELSE device
  /\ mixer_call' = [op |-> "SetVolume", volume |-> volume]
  /\ mixer_result' = IF ok THEN 1 ELSE 0
  /\ UNCHANGED encoder_vars

\* WinmmMixer::GetVolume; ok: waveOutGetVolume returns MMSYSERR_NOERROR
\* and yields what the device holds
WinmmMixer_GetVolume(ok) ==
  /\ mixer_call' = [op |-> "GetVolume", volume |-> 0]
  /\ mixer_result' = IF ok THEN winmm_volume_decode(device) ELSE 0 - 1
  /\ UNCHANGED device
  /\ UNCHANGED encoder_vars

\* no mixer call was made
MixerIdle ==
  /\ device = MAKELONG(65535, 65535)
  /\ mixer_call = NoCall
  /\ mixer_result = 0

----------------------------------------------------------------------------
(* The session: one encoder, from its configuration to its close.          *)

\* the configuration blocks of the sessions: quality 5, bitrate 128,
\* quality "nan", nothing, and both
SessionParams ==
  { [quality |-> Present(<<"5">>), bitrate |-> Absent],
    [quality |-> Absent, bitrate |-> Present(<<"1", "2", "8">>)],
    [quality |-> Present(<<"n", "a", "n">>), bitrate |-> Absent],
    [quality |-> Absent, bitrate |-> Absent],
    [quality |-> Present(<<"5">>), bitrate |-> Present(<<"1", "2", "8">>)] }

InitEncoder ==
  /\ state = "Created"
  /\ error = "none"
  /\ quality = NoQuality
  /\ bitrate = NoBitrate
  /\ audio_format = NoFormat
  /\ vi = NoInfo
  /\ vd = NoDsp
  /\ vb = NoBlock
  /\ stream = NoStream
  /\ lastOp = "new"
  /\ ret = 0

Init ==
  /\ param \in SessionParams
  /\ caller_format \in CallerFormats
  /\ InitEncoder
  /\ MixerIdle

Next ==
  \/ vorbis_encoder_init
  \/ \E accept \in BOOLEAN, garbage \in UninitInts, wraps \in BOOLEAN,
        serialno \in Serials :
       vorbis_encoder_open(accept, garbage, wraps, serialno)
  \/ \E length \in WriteLengths, perBlock \in PacketsPerBlock :
       vorbis_encoder_write(length, perBlock)
  \/ vorbis_encoder_flush
  \/ \E perBlock \in PacketsPerBlock : vorbis_encoder_pre_tag(perBlock)
  \/ \E tag \in Tags, serialno \in Serials : vorbis_encoder_tag(tag, serialno)
  \/ \E length \in ReadLengths : vorbis_encoder_read(length)
  \/ \E crash \in BOOLEAN : vorbis_encoder_close(crash)

Spec == Init /\ [][Next]_vars

----------------------------------------------------------------------------
(* Configuration alone: vorbis_encoder_init on every configuration block   *)
(* whose strings are over Alphabet and at most MaxLen long, and on the     *)
(* probes.  One of the two strings runs over all of them while the other   *)
(* is absent or one of a few.                                              *)

OtherQuality == {Absent, Present(<<"5">>), Present(<<"n">>), Present(<<>>)}
OtherBitrate == {Absent, Present(<<"1">>), Present(<<"n">>), Present(<<>>)}

\* the strings of at most MaxLen characters, and the probes p
ConfigureStrings(p) == StringsUpTo(MaxLen) \cup p

InitConfigure ==
  /\ \/ \E q \in ConfigureStrings(QualityProbes), b \in OtherBitrate :
          param = [quality |-> Present(q), bitrate |-> b]
     \/ \E q \in OtherQuality, b \in ConfigureStrings(BitrateProbes) :
          param = [quality |-> q, bitrate |-> Present(b)]
     \/ param = [quality |-> Absent, bitrate |-> Absent]
  /\ caller_format = [channels |-> 2, sample_rate |-> 44100, format |-> "S16"]
  /\ InitEncoder
  /\ MixerIdle

NextConfigure == vorbis_encoder_init

SpecConfigure == InitConfigure /\ [][NextConfigure]_vars

----------------------------------------------------------------------------
(* Configuration and open: vorbis_encoder_init on the same configuration   *)
(* blocks, and vorbis_encoder_open on each session it returns.             *)

NextOpen ==
  \/ vorbis_encoder_init
  \/ \E accept \in BOOLEAN, garbage \in UninitInts, wraps \in BOOLEAN,
        serialno \in Serials :
       vorbis_encoder_open(accept, garbage, wraps, serialno)

SpecOpen == InitConfigure /\ [][NextOpen]_vars

----------------------------------------------------------------------------
(* The mixer alone: SetVolume with every volume and GetVolume, on a device *)
(* that holds what it is given; no encoder is created.                     *)

InitMixer ==
  /\ device \in DeviceVolumes
  /\ mixer_call = NoCall
  /\ mixer_result = 0
  /\ param = [quality |-> Absent, bitrate |-> Absent]
  /\ caller_format = NoFormat
  /\ InitEncoder

NextMixer ==
  \/ \E volume \in Volumes, ok \in BOOLEAN : WinmmMixer_SetVolume(volume, ok)
  \/ \E ok \in BOOLEAN : WinmmMixer_GetVolume(ok)

SpecMixer == InitMixer /\ [][NextMixer]_vars

----------------------------------------------------------------------------
(* What the claims say about strings.                                      *)

\* s is white space, an optional sign and digits with an optional point,
\* with at least one digit, and nothing else
IsDecimal(s) ==
  LET r == g_ascii_strtod(s)
  IN  /\ r.val.cls = "num"
      /\ r.end = Len(s) + 1
      /\ \E i \in 1..Len(s) : s[i] \in Digits

\* the value of a decimal s lies in [-1.0, 10.0]
InQualityRange(s) ==
  LET r == g_ascii_strtod(s)
  IN  r.val.v >= 0 - Scale /\ r.val.v <= 10 * Scale

\* s is white space, an optional sign and one or more digits, and nothing else
IsInteger(s) ==
  LET p == SpanEnd(s, 1, Spaces)
      q == IF CharAt(s, p) \in {"-", "+"} THEN p + 1 ELSE p
      e == SpanEnd(s, q, Digits)
  IN  e > q /\ e = Len(s) + 1

\* the integer s is greater than 0
IsPositive(s) ==
  /\ \E i \in 1..Len(s) : s[i] \in Digits \ {"0"}
  /\ \A i \in 1..Len(s) : s[i] # "-"

\* the int b is the integer the digits of s denote
EqualsInteger(b, s) ==
  LET p == SpanEnd(s, 1, Spaces)
      q == IF CharAt(s, p) \in {"-", "+"} THEN p + 1 ELSE p
      m == Magnitude(s, q, Len(s) + 1, [l |-> Zero64, ovf |-> FALSE])
  IN  /\ b >= 0
      /\ ~m.ovf
      /\ m.l = <<b % Limb, b \div Limb, 0, 0>>

OnlyQuality == param.quality.present /\ ~param.bitrate.present
OnlyBitrate == ~param.quality.present /\ param.bitrate.present
BothPresent == param.quality.present /\ param.bitrate.present
NonePresent == ~param.quality.present /\ ~param.bitrate.present

----------------------------------------------------------------------------
(* C2 as stated: with both a quality and a bitrate the configuration fails *)
(* with ConflictingMode whatever the two strings are, and with neither it  *)
(* fails with MissingMode.                                                 *)
C2_AlwaysConflictingMode ==
  lastOp = "init" =>
    /\ BothPresent => (ret = 0 /\ error = "ConflictingMode")
    /\ NonePresent => (ret = 0 /\ error = "MissingMode")

(* C2 as amended: with both present the configuration always fails, with   *)
(* ConflictingMode when the quality string is one that is accepted without *)
(* a bitrate and with InvalidQuality when it is one that is rejected       *)
(* without a bitrate; with neither present it fails with MissingMode.      *)
C2_ConflictAfterQualityCheck ==
  lastOp = "init" =>
    /\ BothPresent =>
         /\ ret = 0
         /\ state = "Discarded"
         /\ error = IF vorbis_encoder_configure(
                         [quality |-> NoQuality, bitrate |-> NoBitrate],
                         [param EXCEPT !.bitrate = Absent]).ok
                      THEN "ConflictingMode" ELSE "InvalidQuality"
    /\ NonePresent => (ret = 0 /\ state = "Discarded" /\ error = "MissingMode")

\* both strings are present and the quality one is found invalid
C2_Witness ==
  /\ lastOp = "init"
  /\ BothPresent
  /\ ~IsDecimal(param.quality.str)
  /\ error = "InvalidQuality"

(* C3 as stated: with only a quality string, the configuration succeeds    *)
(* and stores q exactly when the string is a decimal number q in           *)
(* [-1.0, 10.0]; every other string fails with InvalidQuality.             *)
C3_QualityIffDecimalInRange ==
  (lastOp = "init" /\ OnlyQuality) =>
    IF IsDecimal(param.quality.str) /\ InQualityRange(param.quality.str)
      THEN /\ ret = 1
           /\ state = "Configured"
           /\ quality = g_ascii_strtod(param.quality.str).val
      ELSE ret = 0 /\ error = "InvalidQuality"

(* C4 as stated: with only a bitrate string, the configuration succeeds    *)
(* for every positive integer and stores that integer, and fails with      *)
(* InvalidBitrate for every other integer and every other string.          *)
C4_BitrateIffPositiveInteger ==
  (lastOp = "init" /\ OnlyBitrate) =>
    IF IsInteger(param.bitrate.str) /\ IsPositive(param.bitrate.str)
      THEN /\ ret = 1
           /\ state = "Configured"
           /\ bitrate.set
           /\ EqualsInteger(bitrate.v, param.bitrate.str)
      ELSE ret = 0 /\ error = "InvalidBitrate"

----------------------------------------------------------------------------
(* What the claims say about the stream.                                   *)

\* the places in the stream of the packets of logical stream k
PacketsOf(k) == {i \in 1..Len(stream.packets) : stream.packets[i].ls = k}

\* the kinds of the packets at places i..j
Kinds(i, j) == [n \in 1..(j - i + 1) |-> stream.packets[i + n - 1].kind]

HeaderKinds == <<"identification", "comments", "setup">>

\* the last three packets of st are a header triplet that carries the
\* comment vc, under serialno and in logical stream k
EndsWithHeaders(st, vc, serialno, k) ==
  LET n == Len(st.packets)
  IN  /\ n >= 3
      /\ [i \in 1..3 |-> st.packets[n - 3 + i].kind] = HeaderKinds
      /\ st.packets[n - 1].comment = vc
      /\ \A i \in (n - 2)..n :
           st.packets[i].serialno = serialno /\ st.packets[i].ls = k

(* C1: every logical stream, the one open begins and each one a tag        *)
(* begins, starts with exactly the three header packets identification,    *)
(* comments, setup, in this order, and all its other packets are audio     *)
(* packets that come after them.                                           *)
C1_HeadersBeforeAudio ==
  state = "Open" =>
    /\ stream.streams >= 1
    /\ \A i \in 1..Len(stream.packets) : stream.packets[i].ls \in 1..stream.streams
    /\ \A k \in 1..stream.streams :
         \E first \in 1..Len(stream.packets) :
           /\ PacketsOf(k) = {i \in 1..Len(stream.packets) :
                                i >= first /\ (\A j \in first..i : stream.packets[j].ls = k)}
           /\ \A i \in PacketsOf(k) : i >= first
           /\ first + 2 \in PacketsOf(k)
           /\ Kinds(first, first + 2) = HeaderKinds
           /\ \A i \in PacketsOf(k) : i > first + 2 => stream.packets[i].kind = "audio"

\* two logical streams, each with its headers and an audio packet
C1_Witness ==
  /\ state = "Open"
  /\ stream.streams = 2
  /\ \A k \in 1..2 : \E i \in PacketsOf(k) : stream.packets[i].kind = "audio"

(* C5 as stated: after every tag the stream's identifier differs from the  *)
(* one it had before the call.                                             *)
C5_SerialAlwaysChanges ==
  [][lastOp' = "tag" => stream'.serialno # stream.serialno]_vars

(* C5 as amended: after every tag the stream's identifier is the value the *)
(* random source returned to that call, whether or not it differs from the *)
(* identifier before the call, and the call submits the header triplet     *)
(* built from the new tag under that identifier, in a new logical stream,  *)
(* as the last packets of the stream.                                      *)
C5_SerialIsTheRandomValue ==
  [][\A tag \in Tags, serialno \in Serials :
       vorbis_encoder_tag(tag, serialno) =>
         /\ stream'.serialno = serialno
         /\ stream'.streams = stream.streams + 1
         /\ Len(stream'.packets) = Len(stream.packets) + 3
         /\ EndsWithHeaders(stream', copy_tag_to_vorbis_comment(tag),
                            serialno, stream.streams + 1)]_vars

\* a tag was sent and the random source returned the identifier in use
C5_Witness ==
  /\ lastOp = "tag"
  /\ stream.streams = 2
  /\ stream.packets[1].serialno = stream.serialno
  /\ stream.packets[Len(stream.packets)].ls = 2

(* C6: the identifier is assigned once by open and once by each tag, and   *)
(* write, flush, pre_tag and read leave it as it is.                       *)
C6_SerialAssignedByOpenAndTagOnly ==
  [][/\ (lastOp' = "open" /\ state' = "Open") => stream'.streams = 1
     /\ lastOp' = "tag" => stream'.streams = stream.streams + 1
     /\ lastOp' \in {"write", "flush", "pre_tag", "read"} =>
          /\ stream'.serialno = stream.serialno
          /\ stream'.streams = stream.streams]_vars

\* a pre_tag ran in the second logical stream, after an audio packet
C6_Witness ==
  /\ lastOp = "pre_tag"
  /\ stream.streams = 2
  /\ stream.packets[Len(stream.packets)].kind = "audio"

(* C7 as stated: a tag resets the analysis accumulator and the block       *)
(* buffer, so that the end-of-stream marker is clear, before it restarts   *)
(* the stream and sends the headers.                                       *)
C7_TagResetsCodec ==
  lastOp = "tag" => (vd = vorbis_analysis_init /\ vb = vorbis_block_init)

(* C7 as amended: a tag performs two steps in this order: it restarts the  *)
(* stream with a new identifier, then sends the header packets built from  *)
(* the new tag.  It leaves the model descriptor, the analysis accumulator  *)
(* (its frames and its end-of-stream marker) and the block buffer as they  *)
(* are; the reset of the accumulator and the block buffer is done by       *)
(* pre_tag.                                                                *)
C7_TagRestartsThenSendsHeaders ==
  [][/\ \A tag \in Tags, serialno \in Serials :
          vorbis_encoder_tag(tag, serialno) =>
            /\ vi' = vi /\ vd' = vd /\ vb' = vb
            /\ stream'.paged >= Len(stream.packets)
            /\ SubSeq(stream'.packets, 1, Len(stream.packets)) = stream.packets
            /\ EndsWithHeaders(stream', copy_tag_to_vorbis_comment(tag),
                               serialno, stream.streams + 1)
     /\ lastOp' = "pre_tag" =>
          (vi' = vi /\ vd' = vorbis_analysis_init /\ vb' = vorbis_block_init)]_vars

\* a tag was sent while the end of the stream was marked and frames were left
C7_Witness ==
  /\ lastOp = "tag"
  /\ vd.eofflag = "done"
  /\ vd.pcm > 0

(* C8 as stated: an open that fails leaves nothing behind: the model       *)
(* descriptor is released, the accumulator, the block buffer and the       *)
(* stream were never initialized, no packet was submitted, and the caller's *)
(* format descriptor is as it was before the call.                         *)
C8_FailedOpenLeavesNothing ==
  [][(lastOp' = "open" /\ state' = "OpenFailed") =>
       /\ error' = "CodecInitFailed"
       /\ ~vi'.live /\ ~vd'.live /\ ~vb'.live
       /\ ~stream'.initialized
       /\ stream'.packets = <<>>
       /\ vi' = vi /\ vd' = vd /\ vb' = vb /\ stream' = stream
       /\ caller_format' = caller_format]_vars

C10_ReadOnlyCopies ==
  /\ [](stream.returned <= stream.paged /\ stream.paged <= Len(stream.packets))
  /\ [][lastOp' = "read" =>
          /\ vi' = vi /\ vd' = vd /\ vb' = vb
          /\ stream'.serialno = stream.serialno
          /\ stream'.packets = stream.packets
          /\ stream'.paged = stream.paged
          /\ ret' = stream'.returned - stream.returned
          /\ ret' <= stream.paged - stream.returned
          /\ ret' = 0 <=> stream.paged = stream.returned
          /\ ret' > 0 =>
               stream'.paged - stream'.returned < stream.paged - stream.returned
          /\ (lastOp = "read" /\ ret = 0) => ret' = 0]_vars

\* a read returns 0 right after a read that emptied the stream
C10_Witness ==
  /\ lastOp = "read"
  /\ ret = 0
  /\ stream.returned = stream.paged
  /\ stream.returned >= 4

----------------------------------------------------------------------------
(* What the claims say about the life of the session.                      *)

\* the codec state of the session: model descriptor, accumulator and block
\* buffer
CodecStateExists == vi.live /\ vd.live /\ vb.live
NoCodecState == ~vi.live /\ ~vd.live /\ ~vb.live

(* C11 as stated: close may be called in every state in which the session  *)
(* object exists and is not closed (configured, after a failed open,       *)
(* open); it always ends in Closed with no codec resource and no stream    *)
(* held, and it releases no resource that is not held when it is called,   *)
(* so that every resource is released once for each time it was acquired.  *)
C11_CloseReleasesOnlyWhatIsHeld ==
  [][lastOp' = "close" =>
       /\ state' = "Closed"
       /\ NoCodecState' /\ ~stream'.initialized
       /\ \A i \in 1..Len(ClearReleases) : ClearReleases[i] \in Held(Encoder)]_vars

(* C12: when a call has returned, the codec state (model descriptor,       *)
(* accumulator and block buffer) exists exactly when the session is open:  *)
(* none of the three exists before open, after a failed open or after      *)
(* close, and all three exist after open, write, flush, pre_tag, tag and   *)
(* read on an open session.                                                *)
C12_CodecStateIffOpen ==
  /\ state = "Open" <=> CodecStateExists
  /\ state # "Open" => NoCodecState
  /\ lastOp \in {"write", "flush", "pre_tag", "tag", "read"} => CodecStateExists

\* the session was closed after a pre_tag had destroyed and re-created the
\* accumulator and the block buffer
C12_Witness ==
  /\ lastOp = "close"
  /\ state = "Closed"
  /\ NoCodecState
  /\ stream.streams = 2
  /\ \E i \in 1..Len(stream.packets) : stream.packets[i].kind = "audio"

(* C13: a pre_tag marks the end of the segment, drains, re-creates the     *)
(* accumulator and the block buffer, and flushes, in this order: the       *)
(* packets of every block the marked accumulator yields (the frames left   *)
(* over by earlier writes are in its last block) are appended to the       *)
(* stream as audio packets of the current logical stream; afterwards the   *)
(* model descriptor and the identifier are as before, the accumulator is   *)
(* live with no frames and a clear end-of-stream marker, the block buffer  *)
(* is live, and every packet of the stream is ready to be read.            *)
C13_PreTagMarksDrainsResetsFlushes ==
  [][\A perBlock \in PacketsPerBlock :
       vorbis_encoder_pre_tag(perBlock) =>
         LET marked == vorbis_analysis_wrote(vd, 0)
             old == Len(stream.packets)
             n == (vd.pcm \div BlockFrames + 1) * perBlock
         IN  /\ marked.eofflag = "marked"
             /\ Len(stream'.packets) = old + n
             /\ SubSeq(stream'.packets, 1, old) = stream.packets
             /\ \A i \in (old + 1)..(old + n) :
                  /\ stream'.packets[i].kind = "audio"
                  /\ stream'.packets[i].serialno = stream.serialno
                  /\ stream'.packets[i].ls = stream.streams
             /\ vi' = vi
             /\ stream'.serialno = stream.serialno
             /\ stream'.streams = stream.streams
             /\ vd'.live /\ vd'.pcm = 0 /\ vd'.eofflag = "clear"
             /\ vb'.live
             /\ stream'.paged = Len(stream'.packets)
             /\ stream'.returned = stream.returned]_vars

\* a pre_tag has drained an audio packet into the second logical stream and
\* made everything ready, with some of it read before
C13_Witness ==
  /\ lastOp = "pre_tag"
  /\ vd = vorbis_analysis_init
  /\ stream.streams = 2
  /\ Len(stream.packets) >= 7
  /\ stream.packets[Len(stream.packets)].kind = "audio"
  /\ stream.paged = Len(stream.packets)
  /\ stream.returned > 0

(* C14: a flush only makes the stream emit what is pending: afterwards     *)
(* every packet of the stream is ready to be read, and the model           *)
(* descriptor, the accumulator (its frames not yet taken by a block and    *)
(* its end-of-stream marker), the block buffer, the packets of the stream, *)
(* its identifier and what was read of it are as before.                   *)
C14_FlushOnlyEmitsPending ==
  [][lastOp' = "flush" =>
       /\ vi' = vi /\ vd' = vd /\ vb' = vb
       /\ stream'.packets = stream.packets
       /\ stream'.serialno = stream.serialno
       /\ stream'.streams = stream.streams
       /\ stream'.returned = stream.returned
       /\ stream'.paged = Len(stream.packets)
       /\ state' = state /\ ret' = 1]_vars

\* a flush ran while the accumulator held a frame that no block had taken
\* and after audio packets were submitted
C14_Witness ==
  /\ lastOp = "flush"
  /\ vd.pcm > 0
  /\ vd.eofflag = "clear"
  /\ stream.packets[Len(stream.packets)].kind = "audio"
  /\ stream.paged = Len(stream.packets)

(* C15 as stated: the drain of a write ends, and when the write returns    *)
(* the accumulator holds no complete block (fewer frames than a block      *)
(* takes) and yields no further block; the packets of the blocks it        *)
(* yielded were appended to the stream, in order, as audio packets of the  *)
(* current logical stream, and nothing the reader did or did not do has    *)
(* any part in it.                                                         *)
C15_WriteDrainsEveryBlock ==
  [][\A length \in WriteLengths, perBlock \in PacketsPerBlock :
       vorbis_encoder_write(length, perBlock) =>
         LET old == Len(stream.packets)
             wrote == vorbis_analysis_wrote(
                        vd, length \div audio_format_frame_size(audio_format))
             n == BlocksAvailable(wrote) * perBlock
         IN  /\ vd'.pcm < BlockFrames
             /\ vorbis_analysis_blockout(vd').ret = 0
             /\ Len(stream'.packets) = old + n
             /\ SubSeq(stream'.packets, 1, old) = stream.packets
             /\ \A i \in (old + 1)..(old + n) :
                  /\ stream'.packets[i].kind = "audio"
                  /\ stream'.packets[i].ls = stream.streams
             /\ stream'.returned = stream.returned]_vars

----------------------------------------------------------------------------
(* C16 as stated: an open that succeeds has initialized the codec in the   *)
(* mode that was configured: with a quality configured, in variable        *)
(* quality mode with the quality times 0.1; with a bitrate configured, in  *)
(* constant bitrate mode with a nominal rate that is exactly 1000 times    *)
(* the configured bitrate.                                                 *)
C16_OpenUsesConfiguredMode ==
  (lastOp = "open" /\ state = "Open") =>
    IF param.quality.present
      THEN /\ vi.mode = "vbr"
           /\ vi.base_quality = TimesOneTenth(quality)
      ELSE /\ vi.mode = "cbr"
           /\ bitrate.set
           /\ vi.nominal_bitrate.v % 1000 = 0
           /\ vi.nominal_bitrate.v \div 1000 = bitrate.v

(* C17 as stated: on an open session, when a write (of any length, 0 and   *)
(* lengths below one frame included), a flush, a pre_tag or a tag has      *)
(* returned, the end-of-stream marker of the accumulator is clear.         *)
C17_EndOfStreamMarkerClear ==
  (state = "Open" /\ lastOp \in {"write", "flush", "pre_tag", "tag"}) =>
    vd.eofflag = "clear"

(* C18 as stated: whenever a tag restarts the stream, whatever calls came  *)
(* before it, the accumulator holds no frames of earlier writes.           *)
C18_TagFindsNoFrames ==
  [][lastOp' = "tag" => vd.pcm = 0]_vars

(* C18 as amended: a tag that follows a pre_tag, with nothing or only      *)
(* flush, read and tag calls in between, finds the accumulator without     *)
(* frames and with a clear end-of-stream marker: pre_tag leaves it so, and *)
(* flush, read and tag leave the accumulator as it is.  A tag never takes  *)
(* frames out of the accumulator itself, so those a write left behind are  *)
(* still there after a tag that no pre_tag preceded.                       *)
C18_TagAfterPreTagFindsNoFrames ==
  [][/\ (lastOp = "pre_tag" /\ lastOp' = "tag") =>
          (vd.pcm = 0 /\ vd.eofflag = "clear" /\ vd' = vd)
     /\ lastOp' = "pre_tag" => (vd'.pcm = 0 /\ vd'.eofflag = "clear")
     /\ lastOp' \in {"tag", "flush", "read"} => vd' = vd]_vars

\* a tag began the second logical stream on an empty accumulator, after
\* audio of the first was drained and made ready
C18_Witness ==
  /\ lastOp = "tag"
  /\ vd = vorbis_analysis_init
  /\ stream.streams = 2
  /\ Len(stream.packets) >= 7
  /\ stream.packets[Len(stream.packets) - 3].kind = "audio"
  /\ stream.packets[Len(stream.packets) - 3].ls = 1
  /\ stream.paged >= Len(stream.packets) - 3

----------------------------------------------------------------------------
(* C19: for every volume v in 0..100 the value SetVolume gives the device  *)
(* decodes to v; its low and its high word hold the same level, which is   *)
(* v * 655.35 rounded to the nearest integer (a half rounded up), 0 for    *)
(* volume 0 and 65535 (0xFFFF) for volume 100; and a GetVolume that        *)
(* follows the SetVolume returns v.                                        *)
C19_VolumeRoundTrip ==
  /\ []((mixer_call.op = "SetVolume" /\ mixer_result = 1) =>
         LET v == mixer_call.volume
         IN  /\ winmm_volume_decode(device) = v
             /\ device.lo = device.hi
             /\ 100 * device.lo - 50 <= 65535 * v
             /\ 65535 * v < 100 * device.lo + 50
             /\ v = 0 => device.lo = 0
             /\ v = 100 => device.lo = 65535)
  /\ [][(/\ mixer_call.op = "SetVolume" /\ mixer_result = 1
          /\ mixer_call'.op = "GetVolume" /\ mixer_result' # 0 - 1)
         => mixer_result' = mixer_call.volume]_vars

\* GetVolume returned 10 from the level 6554, the half 6553.5 rounded up
C19_Witness ==
  /\ mixer_call.op = "GetVolume"
  /\ mixer_result = 10
  /\ device = MAKELONG(6554, 6554)

====
